---- MODULE Spec2Model ----
(***************************************************************************)
(* Model of demos/05 Vessel Detection Pipeline/utils.py: the reset/create  *)
(* helpers for catalog products (reset_product, create_s1_product) and     *)
(* vector tables (reset_table, create_s1_table, create_s2_table).          *)
(*                                                                         *)
(* The program is single-threaded. Every source line that talks to the     *)
(* remote catalog or vector service is one step of the program counter pc. *)
(* The remote services are the environment: they hold the products, bands, *)
(* images and tables, run the cascade-delete and upload jobs, and may fail *)
(* a request. Which request (or job) fails during a call is an input of    *)
(* the call (call.fault).                                                  *)
(*                                                                         *)
(* Ids are sequences of one-character strings (reset_table inspects the    *)
(* prefix of a table id, create_s1_product appends to a product id).       *)
(* An optional value (Python None or a value) is a set with at most one    *)
(* element.                                                                *)
(***************************************************************************)
EXTENDS Naturals, Sequences, FiniteSets, TLC

VARIABLES
    org,          \* utils.org, read once at import
    svcPrefixes,  \* whether the vector service namespaces a bare id on create
    tableArg,     \* the table id the caller passes to the table functions
    products,     \* catalog: set of [id, name, tags]
    bands,        \* catalog: set of band records
    images,       \* catalog: set of image records
    cascadeJob,   \* catalog: the delete_related_objects job
    uploadJob,    \* catalog: the image upload job
    tables,       \* vector service: set of [id, name, model]
    pc,           \* position of the program
    call,         \* the top-level call being executed (or the last one)
    product,      \* reset_product's local `product`
    status,       \* reset_product's local `status`
    tid,          \* reset_table's local `tid`
    table,        \* reset_table's local `table`
    lookedUp,     \* ids passed to Table.get in this call
    result,       \* how the top-level call ended
    prev,         \* summary of the top-level call before this one
    trace         \* remote requests and job completions of this call, in order

vars == <<org, svcPrefixes, tableArg, products, bands, images, cascadeJob,
          uploadJob, tables, pc, call, product, status, tid, table, lookedUp,
          result, prev, trace>>

sessionVars == <<org, svcPrefixes, tableArg>>
catalogVars == <<products, bands, images, cascadeJob, uploadJob>>
tableLocals == <<tid, table, lookedUp>>
productLocals == <<product, status>>

-----------------------------------------------------------------------------
(* Inputs *)

Pids == {<<"d", "e", "m", "o">>, <<"o", "l", "d">>}
Names == {"Demo", "Other"}

\* Longest table id the caller passes.
MaxIdLen == 3
IdChars == {"a", "b", ":"}

RECURSIVE SeqsOfLen(_)
SeqsOfLen(n) ==
    IF n = 0 THEN {<<>>}
    ELSE {Append(s, c) : s \in SeqsOfLen(n - 1), c \in IdChars}

Tids == UNION {SeqsOfLen(n) : n \in 1..MaxIdLen}

\* A falsy org (None or ''): both behave the same in `org or user_id`.
NoOrg == <<>>
OrgValues == {NoOrg, <<"a">>}
user_hash == <<"b">>

None == {}
Some(v) == {v}

-----------------------------------------------------------------------------
(* Results of a top-level call *)

Pending == [kind |-> "pending", value |-> None, err |-> "none"]
Returned(v) == [kind |-> "returned", value |-> v, err |-> "none"]
Raised(e) == [kind |-> "raised", value |-> None, err |-> e]

NoCall == [op |-> "none", id |-> <<>>, name |-> "none", fault |-> "none"]
NoPrev == [op |-> "none", id |-> <<>>, ok |-> FALSE]

Event(req, ok) == [req |-> req, ok |-> ok]
Requested(req) == \E i \in 1..Len(trace) : trace[i].req = req
SomeRequestFailed == \E i \in 1..Len(trace) : ~trace[i].ok

Fails(req) == call.fault = req

\* An exception leaves the top-level call.
Propagate(req, err) ==
    /\ pc' = "idle"
    /\ result' = Raised(err)
    /\ trace' = Append(trace, Event(req, FALSE))

-----------------------------------------------------------------------------
(* The catalog service *)

ProductExists(pid) == \E p \in products : p.id = pid
ChildrenOf(pid) ==
    {b \in bands : b.product = pid} \cup {i \in images : i.product = pid}

IdleJob == [pid |-> <<>>, state |-> "none"]
Terminal == {"success", "failure"}

\* The delete_related_objects job runs on the service.
CascadeJobRun ==
    /\ cascadeJob.state = "running"
    /\ IF Fails("cascade_job")
       THEN /\ cascadeJob' = [cascadeJob EXCEPT !.state = "failure"]
            /\ UNCHANGED <<bands, images>>
       ELSE /\ cascadeJob' = [cascadeJob EXCEPT !.state = "success"]
            /\ bands' = {b \in bands : b.product # cascadeJob.pid}
            /\ images' = {i \in images : i.product # cascadeJob.pid}
    /\ trace' = Append(trace, Event("cascade_job_done", ~Fails("cascade_job")))
    /\ UNCHANGED <<sessionVars, products, uploadJob, tables, pc, call,
                   productLocals, tableLocals, result, prev>>

\* The upload job runs on the service; on success the image exists
\* (overwrite=True replaces an image of the same name).
UploadJobRun ==
    /\ uploadJob.state = "pending"
    /\ IF Fails("upload_job")
       THEN /\ uploadJob' = [uploadJob EXCEPT !.state = "failure"]
            /\ UNCHANGED images
       ELSE /\ uploadJob' = [uploadJob EXCEPT !.state = "success"]
            /\ images' = {i \in images : ~(i.product = uploadJob.image.product
                                            /\ i.name = uploadJob.image.name)}
                         \cup {uploadJob.image}
    /\ trace' = Append(trace, Event("upload_job_done", ~Fails("upload_job")))
    /\ UNCHANGED <<sessionVars, products, bands, cascadeJob, tables, pc, call,
                   productLocals, tableLocals, result, prev>>

-----------------------------------------------------------------------------
(* reset_product(pid) *)

\* product = Product.get(pid)
ResetProductGet ==
    /\ pc = "rp_get"
    /\ IF Fails("Product.get")
       THEN /\ Propagate("Product.get", "ServiceError")
            /\ UNCHANGED product
       ELSE /\ product' = IF ProductExists(call.id) THEN Some(call.id) ELSE None
            /\ pc' = "rp_if"
            /\ trace' = Append(trace, Event("Product.get", TRUE))
            /\ UNCHANGED result
    /\ UNCHANGED <<sessionVars, catalogVars, tables, call, status, tableLocals,
                   prev>>

\* The guard dropped: the deletion path is taken whatever the lookup found.
ResetProductFoundAlways == TRUE

\* if product:
ResetProductFound == product # None

ResetProductIf ==
    /\ pc = "rp_if"
    /\ pc' = IF ResetProductFound THEN "rp_cascade" ELSE "rp_complete"
    /\ UNCHANGED <<sessionVars, catalogVars, tables, call, productLocals,
                   tableLocals, result, prev, trace>>

\* status = product.delete_related_objects(): a job while there is something
\* to delete, None otherwise.
ResetProductCascade ==
    /\ pc = "rp_cascade"
    /\ IF Fails("delete_related_objects")
       THEN /\ Propagate("delete_related_objects", "ServiceError")
            /\ UNCHANGED <<status, cascadeJob>>
       ELSE /\ IF ChildrenOf(call.id) = {}
               THEN /\ status' = None
                    /\ UNCHANGED cascadeJob
               ELSE /\ status' = Some("job")
                    /\ cascadeJob' = [pid |-> call.id, state |-> "running"]
            /\ pc' = "rp_wait"
            /\ trace' = Append(trace, Event("delete_related_objects", TRUE))
            /\ UNCHANGED result
    /\ UNCHANGED <<sessionVars, products, bands, images, uploadJob, tables,
                   call, product, tableLocals, prev>>

\* The wait dropped: the program goes on while the job is running.
CascadeWaitSkipped == TRUE

\* if status: status.wait_for_completion()
\* blocks until the job is in a terminal state; no timeout is passed.
CascadeWaitOver == status = None \/ cascadeJob.state \in Terminal

ResetProductWait ==
    /\ pc = "rp_wait"
    /\ CascadeWaitOver
    /\ pc' = "rp_delete"
    /\ UNCHANGED <<sessionVars, catalogVars, tables, call, productLocals,
                   tableLocals, result, prev, trace>>

\* product.delete(): the service refuses while related objects exist.
ResetProductDelete ==
    /\ pc = "rp_delete"
    /\ IF Fails("Product.delete")
       THEN /\ Propagate("Product.delete", "ServiceError")
            /\ UNCHANGED products
       ELSE IF ChildrenOf(call.id) # {}
       THEN /\ Propagate("Product.delete", "ConflictError")
            /\ UNCHANGED products
       ELSE /\ products' = {p \in products : p.id # call.id}
            /\ pc' = "rp_complete"
            /\ trace' = Append(trace, Event("Product.delete", TRUE))
            /\ UNCHANGED result
    /\ UNCHANGED <<sessionVars, bands, images, cascadeJob, uploadJob, tables,
                   call, productLocals, tableLocals, prev>>

\* print("Complete"); return to the caller.
ResetProductComplete ==
    /\ pc = "rp_complete"
    /\ IF call.op = "reset_product"
       THEN /\ pc' = "idle"
            /\ result' = Returned(None)
       ELSE /\ pc' = "cp_save"
            /\ UNCHANGED result
    /\ UNCHANGED <<sessionVars, catalogVars, tables, call, productLocals,
                   tableLocals, prev, trace>>

-----------------------------------------------------------------------------
(* create_s1_product(pid, name) *)

NewProduct(pid, name) == [id |-> pid, name |-> name, tags |-> <<"examples">>]

\* The band named after another polarisation.
BandIdVh(pid) == pid \o <<":", "v", "h">>

BandId(pid) == pid \o <<":", "v", "v">>

NewBand(pid) ==
    [id |-> BandId(pid), product |-> pid, band_index |-> 0, file_index |-> 0,
     data_range |-> <<1, 4095>>, data_type |-> "UInt16",
     display_range |-> <<858, 2926>>,
     resolution |-> [unit |-> "meters", value |-> 10]]

NewImage(pid) ==
    [product |-> pid, name |-> "image1", acquired |-> "2025-02-04",
     file |-> "data/s1_sample_1.tif"]

\* product = Product(id=pid); product.name = name; product.tags = [...];
\* product.save()
CreateProductSave ==
    /\ pc = "cp_save"
    /\ IF Fails("Product.save")
       THEN /\ Propagate("Product.save", "ServiceError")
            /\ UNCHANGED products
       ELSE IF ProductExists(call.id)
       THEN /\ Propagate("Product.save", "ConflictError")
            /\ UNCHANGED products
       ELSE /\ products' = products \cup {NewProduct(call.id, call.name)}
            /\ pc' = "cp_band"
            /\ trace' = Append(trace, Event("Product.save", TRUE))
            /\ UNCHANGED result
    /\ UNCHANGED <<sessionVars, bands, images, cascadeJob, uploadJob, tables,
                   call, productLocals, tableLocals, prev>>

\* band.save() left out: the band is built and never persisted.
CreateProductBandUnsaved ==
    /\ pc = "cp_band"
    /\ pc' = "cp_upload"
    /\ UNCHANGED <<sessionVars, catalogVars, tables, call, productLocals,
                   tableLocals, result, prev, trace>>

\* band = GenericBand(id=f"{product.id}:vv", ...); band.save()
CreateProductBand ==
    /\ pc = "cp_band"
    /\ IF Fails("Band.save")
       THEN /\ Propagate("Band.save", "ServiceError")
            /\ UNCHANGED bands
       ELSE IF \E b \in bands : b.id = BandId(call.id)
       THEN /\ Propagate("Band.save", "ConflictError")
            /\ UNCHANGED bands
       ELSE /\ bands' = bands \cup {NewBand(call.id)}
            /\ pc' = "cp_upload"
            /\ trace' = Append(trace, Event("Band.save", TRUE))
            /\ UNCHANGED result
    /\ UNCHANGED <<sessionVars, products, images, cascadeJob, uploadJob,
                   tables, call, productLocals, tableLocals, prev>>

\* img = Image(product=product, name="image1"); img.acquired = ...;
\* upload = img.upload("data/s1_sample_1.tif", overwrite=True)
CreateProductUpload ==
    /\ pc = "cp_upload"
    /\ IF Fails("Image.upload")
       THEN /\ Propagate("Image.upload", "ServiceError")
            /\ UNCHANGED uploadJob
       ELSE /\ uploadJob' = [image |-> NewImage(call.id), state |-> "pending"]
            /\ pc' = "cp_wait"
            /\ trace' = Append(trace, Event("Image.upload", TRUE))
            /\ UNCHANGED result
    /\ UNCHANGED <<sessionVars, products, bands, images, cascadeJob, tables,
                   call, productLocals, tableLocals, prev>>

\* The wait dropped: the program returns while the upload is pending.
UploadWaitSkipped == TRUE

\* upload.wait_for_completion(): blocks until the job is in a terminal state,
\* whichever it is; no timeout is passed and the status is not inspected.
UploadWaitOver == uploadJob.state \in Terminal

CreateProductWait ==
    /\ pc = "cp_wait"
    /\ UploadWaitOver
    /\ pc' = "cp_return"
    /\ UNCHANGED <<sessionVars, catalogVars, tables, call, productLocals,
                   tableLocals, result, prev, trace>>

\* print("Added first image"); return product.id
CreateProductReturn ==
    /\ pc = "cp_return"
    /\ pc' = "idle"
    /\ result' = Returned(Some(call.id))
    /\ UNCHANGED <<sessionVars, catalogVars, tables, call, productLocals,
                   tableLocals, prev, trace>>

-----------------------------------------------------------------------------
(* Top-level calls *)

ResetProductFaults ==
    {"none", "Product.get", "delete_related_objects", "cascade_job",
     "Product.delete"}
CreateProductFaults ==
    ResetProductFaults \cup
    {"Product.save", "Band.save", "Image.upload", "upload_job"}

\* A call succeeded when it returned and no request or job of it failed.
Succeeded == result.kind = "returned" /\ ~SomeRequestFailed

Summary == [op |-> call.op, id |-> call.id, ok |-> Succeeded]

Enter(c, entry) ==
    /\ pc = "idle"
    /\ prev' = Summary
    /\ call' = c
    /\ pc' = entry
    /\ result' = Pending
    /\ trace' = <<>>
    /\ product' = None
    /\ status' = None
    /\ tid' = <<>>
    /\ table' = None
    /\ lookedUp' = {}
    /\ cascadeJob' = IdleJob
    /\ uploadJob' = [image |-> NewImage(<<>>), state |-> "none"]
    /\ UNCHANGED <<sessionVars, products, bands, images, tables>>

CallResetProduct ==
    \E pid \in Pids, f \in ResetProductFaults :
        Enter([op |-> "reset_product", id |-> pid, name |-> "none",
               fault |-> f], "rp_get")

\* print("Checking for existing Product..."); reset_product(pid)
CallCreateProduct ==
    \E pid \in Pids, n \in Names, f \in CreateProductFaults :
        Enter([op |-> "create_s1_product", id |-> pid, name |-> n,
               fault |-> f], "rp_get")

-----------------------------------------------------------------------------
(* The vector service *)

StartsWith(s, prefix) ==
    /\ Len(prefix) <= Len(s)
    /\ SubSeq(s, 1, Len(prefix)) = prefix

TableExists(id) == \E t \in tables : t.id = id

\* The id under which the service stores a table created with id t: either
\* as given, or placed in the caller's namespace when it is not yet.
ServiceQualify(t) ==
    IF StartsWith(t, org \o <<":">>) THEN t ELSE org \o <<":">> \o t

ServiceId(t) == IF svcPrefixes THEN ServiceQualify(t) ELSE t

-----------------------------------------------------------------------------
(* reset_table(tid) *)

\* `org or user_id`: org when it is truthy; otherwise the name user_id is
\* evaluated, and the module defines no such name (it defines user_hash).
NamespaceDefined == org # NoOrg
Namespace == org

\* if not tid.startswith(ns): tid = f"{ns}:{tid}"
Normalize(t) ==
    IF StartsWith(t, Namespace) THEN t ELSE Namespace \o <<":">> \o t

ResetTableNormalize ==
    /\ pc = "rt_norm"
    /\ IF NamespaceDefined
       THEN /\ tid' = Normalize(call.id)
            /\ pc' = "rt_get"
            /\ UNCHANGED result
       ELSE /\ pc' = "idle"
            /\ result' = Raised("NameError")
            /\ UNCHANGED tid
    /\ UNCHANGED <<sessionVars, catalogVars, tables, call, productLocals,
                   table, lookedUp, prev, trace>>

\* try: table = Table.get(tid)
\* A table that does not exist is reported by an exception or by None.
ResetTableGet ==
    /\ pc = "rt_get"
    /\ lookedUp' = lookedUp \cup {tid}
    /\ IF Fails("Table.get")
       THEN /\ pc' = "rt_except"
            /\ trace' = Append(trace, Event("Table.get", FALSE))
            /\ UNCHANGED table
       ELSE /\ trace' = Append(trace, Event("Table.get", TRUE))
            /\ IF TableExists(tid)
               THEN /\ table' = Some(tid)
                    /\ pc' = "rt_if"
               ELSE /\ UNCHANGED table
                    /\ pc' \in {"rt_except", "rt_if"}
    /\ UNCHANGED <<sessionVars, catalogVars, tables, call, productLocals, tid,
                   result, prev>>

\* Leaving reset_table with value v: to the top level, or back into
\* create_s1_table / create_s2_table, which discard the value.
ResetTableLeave(v) ==
    IF call.op = "reset_table"
    THEN /\ pc' = "idle"
         /\ result' = Returned(v)
    ELSE /\ pc' = "ct_create"
         /\ UNCHANGED result

\* if table: table.delete(); print(...)   and the fall off the end
ResetTableIf ==
    /\ pc = "rt_if"
    /\ IF table = None
       THEN /\ ResetTableLeave(None)
            /\ UNCHANGED <<tables, trace>>
       ELSE IF Fails("Table.delete")
       THEN /\ pc' = "rt_except"
            /\ trace' = Append(trace, Event("Table.delete", FALSE))
            /\ UNCHANGED <<tables, result>>
       ELSE /\ tables' = {t \in tables : t.id # tid}
            /\ trace' = Append(trace, Event("Table.delete", TRUE))
            /\ ResetTableLeave(None)
    /\ UNCHANGED <<sessionVars, catalogVars, call, productLocals, tableLocals,
                   prev>>

\* except: return tid
ResetTableExcept ==
    /\ pc = "rt_except"
    /\ ResetTableLeave(Some(tid))
    /\ UNCHANGED <<sessionVars, catalogVars, tables, call, productLocals,
                   tableLocals, prev, trace>>

-----------------------------------------------------------------------------
(* create_s1_table(tid), create_s2_table(tid) *)

TableName(op) ==
    IF op = "create_s1_table" THEN "S1 Vessel Detections Demo"
    ELSE "S2 Geoai Vessel Detections Demo"

TableModel(op) ==
    IF op = "create_s1_table" THEN {"DATE", "SOURCE_IMG_ID"}
    ELSE {"date", "confidence"}

\* vessels_table = Table.create(tid, name=..., model=...)
\* return vessels_table.id
\* The argument is the function's own tid, not reset_table's local one.
CreateTableArg == call.id

CreateTable ==
    /\ pc = "ct_create"
    /\ pc' = "idle"
    /\ IF Fails("Table.create")
       THEN /\ result' = Raised("ServiceError")
            /\ trace' = Append(trace, Event("Table.create", FALSE))
            /\ UNCHANGED tables
       ELSE IF TableExists(ServiceId(CreateTableArg))
       THEN /\ result' = Raised("ConflictError")
            /\ trace' = Append(trace, Event("Table.create", FALSE))
            /\ UNCHANGED tables
       ELSE /\ tables' = tables \cup
                  {[id |-> ServiceId(CreateTableArg), name |-> TableName(call.op),
                    model |-> TableModel(call.op)]}
            /\ result' = Returned(Some(ServiceId(CreateTableArg)))
            /\ trace' = Append(trace, Event("Table.create", TRUE))
    /\ UNCHANGED <<sessionVars, catalogVars, call, productLocals, tableLocals,
                   prev>>

ResetTableFaults == {"none", "Table.get", "Table.delete"}
CreateTableFaults == ResetTableFaults \cup {"Table.create"}

CallResetTable ==
    \E f \in ResetTableFaults :
        Enter([op |-> "reset_table", id |-> tableArg, name |-> "none",
               fault |-> f], "rt_norm")

CallCreateS1Table ==
    \E f \in CreateTableFaults :
        Enter([op |-> "create_s1_table", id |-> tableArg, name |-> "none",
               fault |-> f], "rt_norm")

CallCreateS2Table ==
    \E f \in CreateTableFaults :
        Enter([op |-> "create_s2_table", id |-> tableArg, name |-> "none",
               fault |-> f], "rt_norm")

-----------------------------------------------------------------------------
(* Specifications *)

\* Objects other users of the catalog may have left under a product id.
OtherBand(pid) ==
    [NewBand(pid) EXCEPT !.id = pid \o <<":", "v", "h">>, !.band_index = 1]
OtherImage(pid) == [NewImage(pid) EXCEPT !.name = "image0"]
OldImage(pid) == [NewImage(pid) EXCEPT !.acquired = "2024-01-01"]

Seeds == {"absent", "bare", "full"}

InitProgram ==
    /\ pc = "idle"
    /\ call = NoCall
    /\ product = None
    /\ status = None
    /\ tid = <<>>
    /\ table = None
    /\ lookedUp = {}
    /\ result = Pending
    /\ prev = NoPrev
    /\ trace = <<>>
    /\ cascadeJob = IdleJob
    /\ uploadJob = [image |-> NewImage(<<>>), state |-> "none"]

\* The catalog functions, from any of a few catalog states.
InitProduct ==
    /\ InitProgram
    /\ org = <<"a">>
    /\ svcPrefixes = FALSE
    /\ tableArg = <<>>
    /\ tables = {}
    /\ \E seed \in [Pids -> Seeds] :
        /\ products = {[NewProduct(p, "Old") EXCEPT !.tags = <<>>] :
                          p \in {q \in Pids : seed[q] # "absent"}}
        /\ bands = UNION {{NewBand(p), OtherBand(p)} :
                          p \in {q \in Pids : seed[q] = "full"}}
        /\ images = UNION {{OldImage(p), OtherImage(p)} :
                          p \in {q \in Pids : seed[q] = "full"}}

NextProduct ==
    \/ CallResetProduct
    \/ CallCreateProduct
    \/ ResetProductGet
    \/ ResetProductIf
    \/ ResetProductCascade
    \/ CascadeJobRun
    \/ ResetProductWait
    \/ ResetProductDelete
    \/ ResetProductComplete
    \/ CreateProductSave
    \/ CreateProductBand
    \/ CreateProductUpload
    \/ UploadJobRun
    \/ CreateProductWait
    \/ CreateProductReturn

SpecProduct == InitProduct /\ [][NextProduct]_vars

\* The table functions, for every table id, session and service.
InitTable ==
    /\ InitProgram
    /\ org \in OrgValues
    /\ svcPrefixes \in BOOLEAN
    /\ tableArg \in Tids
    /\ tables = {}
    /\ products = {}
    /\ bands = {}
    /\ images = {}

NextTable ==
    \/ CallResetTable
    \/ CallCreateS1Table
    \/ CallCreateS2Table
    \/ ResetTableNormalize
    \/ ResetTableGet
    \/ ResetTableIf
    \/ ResetTableExcept
    \/ CreateTable

SpecTable == InitTable /\ [][NextTable]_vars

-----------------------------------------------------------------------------
(* Properties of the catalog functions, checked under SpecProduct *)

AtEnd(op) == pc = "idle" /\ call.op = op

ProductsOf(pid) == {p \in products : p.id = pid}
BandsOf(pid) == {b \in bands : b.product = pid}
ImagesOf(pid) == {i \in images : i.product = pid}

SecondCreateSucceeded ==
    /\ AtEnd("create_s1_product")
    /\ Succeeded
    /\ prev = [op |-> "create_s1_product", id |-> call.id, ok |-> TRUE]

\* C1: after two successive successful calls of create_s1_product with the
\* same id, the catalog holds exactly one product with that id, the one the
\* second call made, and it owns exactly one band and exactly one image.
C1_RecreateLeavesOne ==
    SecondCreateSucceeded =>
        /\ ProductsOf(call.id) = {NewProduct(call.id, call.name)}
        /\ Cardinality(BandsOf(call.id)) = 1
        /\ Cardinality(ImagesOf(call.id)) = 1
        /\ \A i \in ImagesOf(call.id) : i.acquired = "2025-02-04"

\* The second call found the first call's product and cascade-deleted it.
C1_Witness ==
    /\ SecondCreateSucceeded
    /\ product = Some(call.id)
    /\ Requested("cascade_job_done")

UploadStepFailed ==
    \E i \in 1..Len(trace) :
        trace[i].req \in {"Image.upload", "upload_job_done"} /\ ~trace[i].ok

\* C2: when the upload step of create_s1_product fails (the upload request
\* raises, or the upload job ends failed), the call ends by raising and
\* returns no product id.
C2_UploadFailurePropagates ==
    (AtEnd("create_s1_product") /\ UploadStepFailed) => result.kind = "raised"

LookupFoundNothing ==
    /\ call.op = "reset_product"
    /\ trace # <<>>
    /\ trace[1] = Event("Product.get", TRUE)
    /\ product = None

DeleteRequested ==
    Requested("delete_related_objects") \/ Requested("Product.delete")

\* C5: once reset_product's lookup has found no product, no step of the call
\* changes the catalog or issues a cascade-delete or delete request, and the
\* call ends by returning normally.
C5_NotFoundIsNoOp ==
    [][LookupFoundNothing' =>
          /\ UNCHANGED <<products, bands, images>>
          /\ ~DeleteRequested'
          /\ pc' \in {"rp_if", "rp_complete", "idle"}
          /\ pc' = "idle" => result' = Returned(None)]_vars

C5_Witness ==
    /\ LookupFoundNothing
    /\ pc = "idle"
    /\ result = Returned(None)
    /\ products # {}

NoPriorProduct ==
    /\ trace # <<>>
    /\ trace[1] = Event("Product.get", TRUE)
    /\ product = None

\* C7: a successful create_s1_product(id, name) whose lookup found no product
\* of that id returns id and leaves one product with that id, named name and
\* tagged ["examples"], with one band with id '<id>:vv' and data_range
\* [1, 4095] and one image named "image1" acquired "2025-02-04".
C7_FreshCreate ==
    (AtEnd("create_s1_product") /\ Succeeded /\ NoPriorProduct) =>
        /\ result = Returned(Some(call.id))
        /\ ProductsOf(call.id) =
              {[id |-> call.id, name |-> call.name, tags |-> <<"examples">>]}
        /\ Cardinality(BandsOf(call.id)) = 1
        /\ \A b \in BandsOf(call.id) :
              /\ b.id = call.id \o <<":", "v", "v">>
              /\ b.data_range = <<1, 4095>>
        /\ Cardinality(ImagesOf(call.id)) = 1
        /\ \A i \in ImagesOf(call.id) :
              i.name = "image1" /\ i.acquired = "2025-02-04"

C7_Witness ==
    /\ AtEnd("create_s1_product")
    /\ Succeeded
    /\ NoPriorProduct
    /\ call.name = "Demo"
    /\ Cardinality(products) = 2

\* C9: in reset_product the delete request for the product is issued only
\* after the cascade delete has been requested and, when that returned a job,
\* after the job has finished; it is never issued while the job is running.
C9_DeleteAfterCascade ==
    /\ pc = "rp_delete" => cascadeJob.state # "running"
    /\ \A i \in 1..Len(trace) :
          trace[i].req = "Product.delete" =>
              \E j \in 1..(i - 1) :
                  /\ trace[j] = Event("delete_related_objects", TRUE)
                  /\ status # None =>
                        \E k \in (j + 1)..(i - 1) :
                            trace[k].req = "cascade_job_done"

C9_Witness ==
    /\ Requested("Product.delete")
    /\ status # None
    /\ ~ProductExists(call.id)

\* C10: create_s1_product does not leave its wait while the upload job is
\* pending, and has returned only when the job is in a terminal state; there
\* is no other way out of the wait.
C10_ReturnsAfterUpload ==
    [][/\ (pc = "cp_wait" /\ uploadJob.state \notin Terminal) =>
              (pc' = "cp_wait" /\ result' = result)
       /\ (call'.op = "create_s1_product" /\ result'.kind = "returned") =>
              (uploadJob'.state \in Terminal
               /\ Requested("upload_job_done")')]_vars

C10_Witness ==
    /\ AtEnd("create_s1_product")
    /\ result.kind = "returned"
    /\ uploadJob.state = "success"
    /\ ImagesOf(call.id) # {}

-----------------------------------------------------------------------------
(* Properties of the table functions, checked under SpecTable *)

TableCreates == {"create_s1_table", "create_s2_table"}

\* Namespace qualification as the specification states it.
SessionNamespace == IF org # NoOrg THEN org ELSE user_hash

IsQualified(t) ==
    \/ org # NoOrg /\ StartsWith(t, org \o <<":">>)
    \/ StartsWith(t, user_hash \o <<":">>)

Qualified(t) ==
    IF IsQualified(t) THEN t ELSE SessionNamespace \o <<":">> \o t

\* C3: every id reset_table looks up is the namespace-qualified form of its
\* argument: a bare name n (also one that merely begins with the namespace
\* string) is looked up as '<namespace>:n', an id qualified with the
\* organization or the user namespace is looked up unchanged.
C3_LookupIsQualified ==
    \A id \in lookedUp : id = Qualified(call.id)

\* C4: create_s1_table and create_s2_table end by raising whenever a remote
\* request they made failed, the lookup and the delete of the reset step
\* included; they return no table id after a failed request.
C4_TableFailurePropagates ==
    (pc = "idle" /\ call.op \in TableCreates /\ SomeRequestFailed) =>
        result.kind = "raised"

\* C6: create_s1_table and create_s2_table are idempotent for every id:
\* with no request failing, the first call succeeds, a call repeated right
\* after a successful one succeeds too, the table looked up by the reset step
\* is the table created, and exactly one table has that id afterwards.
C6_TableCreateIdempotent ==
    (pc = "idle" /\ call.op \in TableCreates /\ call.fault = "none"
        /\ (prev.op = "none" \/ prev = [op |-> call.op, id |-> call.id,
                                         ok |-> TRUE])) =>
        /\ Succeeded
        /\ lookedUp = result.value
        /\ \A id \in result.value :
              Cardinality({t \in tables : t.id = id}) = 1

\* C8: when the service fails the lookup of a reset_table call, the error is
\* not propagated and reset_table returns the id it looked up, for every
\* value of the organization identifier, an absent one included.
C8_ResetTableSwallows ==
    (AtEnd("reset_table") /\ call.fault = "Table.get") =>
        /\ result.kind = "returned"
        /\ lookedUp # {}
        /\ result.value = lookedUp

====
